---- MODULE Spec2Model ----
(***************************************************************************)
(* Four-bar linkage server: POST /compute -> computeFourBar and            *)
(* grashofCondition (src/server.js and its revision src/unnamed/part_001). *)
(* src/unnamed/part_000, an earlier inline variant with other formulas and *)
(* no normalization, is outside every property below and is not modelled.  *)
(*                                                                         *)
(* JavaScript numbers are IEEE-754 binary64.  A finite number is kept as   *)
(*     q + r * eps          eps = 2^-53                                    *)
(* with q an exact rational (the part a short binary fraction holds) and r *)
(* the residual that rounding leaves, in units of eps.  Every arithmetic   *)
(* operator rounds its result to the binary64 grid at q (round to nearest, *)
(* ties to even), so absorption (360 + (-1.7e-15) = 360) and cancellation  *)
(* (1 - (1 - eps) = eps) come out as the hardware computes them.           *)
(***************************************************************************)
EXTENDS Integers, Sequences, FiniteSets, TLC

(***************************************************************************)
(* Exact rationals <<n, d>>, d > 0, in lowest terms.                       *)
(***************************************************************************)
Abs(i) == IF i < 0 THEN -i ELSE i

Sign(i) == IF i > 0 THEN 1 ELSE IF i < 0 THEN -1 ELSE 0

RECURSIVE Gcd(_, _)
Gcd(m, n) == IF n = 0 THEN m ELSE Gcd(n, m % n)

Rat(n, d) ==
  LET g == Gcd(Abs(n), Abs(d))
      s == IF d < 0 THEN -1 ELSE 1
  IN  IF n = 0 THEN <<0, 1>> ELSE <<s * (n \div g), s * (d \div g)>>

RInt(i) == <<i, 1>>

RAdd(x, y) == Rat(x[1] * y[2] + y[1] * x[2], x[2] * y[2])

RNeg(x) == <<-x[1], x[2]>>

RSub(x, y) == RAdd(x, RNeg(y))

RMul(x, y) == Rat(x[1] * y[1], x[2] * y[2])

RDiv(x, y) == Rat(x[1] * y[2], x[2] * y[1])

RAbs(x) == <<Abs(x[1]), x[2]>>

RSign(x) == Sign(x[1])

RLt(x, y) == x[1] * y[2] < y[1] * x[2]

RCmp(x, y) == Sign(x[1] * y[2] - y[1] * x[2])

RFloor(x) == x[1] \div x[2]

\* 2^e as a rational, e any integer
RECURSIVE Pow2(_)
Pow2(e) == IF e = 0 THEN <<1, 1>>
           ELSE IF e > 0 THEN RMul(<<2, 1>>, Pow2(e - 1))
           ELSE RMul(<<1, 2>>, Pow2(e + 1))

\* floor(log2 x) for a rational x > 0
RECURSIVE FloorLog2(_)
FloorLog2(x) == IF ~RLt(x, <<2, 1>>) THEN 1 + FloorLog2(RMul(x, <<1, 2>>))
                ELSE IF RLt(x, <<1, 1>>) THEN FloorLog2(RMul(x, <<2, 1>>)) - 1
                ELSE 0

\* integer square root of n >= 0
RECURSIVE ISqrtFrom(_, _)
ISqrtFrom(n, k) == IF (k + 1) * (k + 1) > n THEN k ELSE ISqrtFrom(n, k + 1)

ISqrt(n) == ISqrtFrom(n, 0)

IsSquare(x) == /\ ISqrt(x[1]) * ISqrt(x[1]) = x[1]
               /\ ISqrt(x[2]) * ISqrt(x[2]) = x[2]

RSqrt(x) == <<ISqrt(x[1]), ISqrt(x[2])>>

\* nearest integer to x; an exact tie goes the way of bias (the sign of the
\* part of the true result below eps), or to the even neighbour without one
RoundNearest(x, bias) ==
  LET f == RFloor(x)
      c == RCmp(RSub(x, RInt(f)), <<1, 2>>)
  IN  IF c > 0 THEN f + 1
      ELSE IF c < 0 THEN f
      ELSE IF bias > 0 THEN f + 1
      ELSE IF bias < 0 THEN f
      ELSE IF f % 2 = 0 THEN f ELSE f + 1

(***************************************************************************)
(* binary64 values.                                                        *)
(*   fin : q + r*eps                                                       *)
(*   inf : +Infinity / -Infinity (s)                                       *)
(*   nan : NaN                                                             *)
(*   rt  : sqrt(q) for a q that is not a rational square                   *)
(*   half: sqrt of a positive residual (about 1e-8)                        *)
(*   und : a product of two residuals (about 1e-32), below what the model  *)
(*         resolves; no input of the model's sets produces one            *)
(***************************************************************************)
Fin(q, r) == [k |-> "fin", q |-> q, r |-> r, s |-> 0]

Num(i) == Fin(RInt(i), <<0, 1>>)

NaN == [k |-> "nan", q |-> <<0, 1>>, r |-> <<0, 1>>, s |-> 0]

Inf(s) == [k |-> "inf", q |-> <<0, 1>>, r |-> <<0, 1>>, s |-> s]

Und == [k |-> "und", q |-> <<0, 1>>, r |-> <<0, 1>>, s |-> 0]

IsFin(x) == x.k = "fin"

IsZero(x) == x.k = "fin" /\ x.q[1] = 0 /\ x.r[1] = 0

\* a nonzero value below 1e-13: nothing but rounding residue
IsResidual(x) == x.k = "fin" /\ x.q[1] = 0 /\ x.r[1] # 0

FSign(x) == IF x.k = "inf" THEN x.s
            ELSE IF x.k = "fin"
                 THEN (IF x.q[1] # 0 THEN RSign(x.q) ELSE RSign(x.r))
                 ELSE 0

\* the spacing of binary64 at q + r*eps, in units of eps
Ulp(q, r) ==
  LET a == RAbs(q)
      e == FloorLog2(a)
      below == a = Pow2(e) /\ RSign(q) * RSign(r) < 0
  IN  Pow2((IF below THEN e - 1 ELSE e) + 1)

Round(q, r, bias) ==
  IF q[1] = 0 THEN Fin(q, r)
  ELSE LET g == Ulp(q, r)
       IN  Fin(q, RMul(RInt(RoundNearest(RDiv(r, g), bias)), g))

FNeg(x) == IF x.k = "inf" THEN Inf(-x.s)
           ELSE IF x.k = "fin" THEN Fin(RNeg(x.q), RNeg(x.r))
           ELSE x

FAdd(x, y) ==
  IF x.k = "nan" \/ y.k = "nan" THEN NaN
  ELSE IF x.k = "und" \/ y.k = "und" THEN Und
  ELSE IF x.k = "inf" THEN (IF y.k = "inf" /\ y.s # x.s THEN NaN ELSE x)
  ELSE IF y.k = "inf" THEN y
  ELSE Round(RAdd(x.q, y.q), RAdd(x.r, y.r), 0)

FSub(x, y) == FAdd(x, FNeg(y))

FMul(x, y) ==
  IF x.k = "nan" \/ y.k = "nan" THEN NaN
  ELSE IF x.k = "und" \/ y.k = "und" THEN Und
  ELSE IF x.k = "inf" \/ y.k = "inf"
       THEN (IF FSign(x) * FSign(y) = 0 THEN NaN ELSE Inf(FSign(x) * FSign(y)))
  ELSE IF IsResidual(x) /\ IsResidual(y) THEN Und
  ELSE Round(RMul(x.q, y.q),
             RAdd(RMul(x.q, y.r), RMul(y.q, x.r)),
             RSign(x.r) * RSign(y.r))

FDiv(x, y) ==
  IF x.k = "nan" \/ y.k = "nan" THEN NaN
  ELSE IF x.k = "und" \/ y.k = "und" THEN Und
  ELSE IF x.k = "inf"
       THEN (IF y.k = "inf" THEN NaN
             ELSE Inf(x.s * (IF FSign(y) < 0 THEN -1 ELSE 1)))
  ELSE IF y.k = "inf" THEN Num(0)
  ELSE IF IsZero(y) THEN (IF IsZero(x) THEN NaN ELSE Inf(FSign(x)))
  ELSE IF y.q[1] = 0 THEN Und
  ELSE Round(RDiv(x.q, y.q),
             RDiv(RSub(RMul(x.r, y.q), RMul(x.q, y.r)), RMul(y.q, y.q)),
             0)

\* x < y as JavaScript compares: false when either side is NaN
FLt(x, y) ==
  IF x.k \in {"nan", "und"} \/ y.k \in {"nan", "und"} THEN FALSE
  ELSE IF x.k = "inf" THEN x.s < 0 /\ ~(y.k = "inf" /\ y.s < 0)
  ELSE IF y.k = "inf" THEN y.s > 0
  ELSE LET c == RCmp(x.q, y.q)
       IN  c < 0 \/ (c = 0 /\ RLt(x.r, y.r))

FAbs(x) == IF FSign(x) < 0 THEN FNeg(x) ELSE x

FMin(x, y) == IF x.k = "nan" \/ y.k = "nan" THEN NaN
              ELSE IF FLt(y, x) THEN y ELSE x

FMax(x, y) == IF x.k = "nan" \/ y.k = "nan" THEN NaN
              ELSE IF FLt(x, y) THEN y ELSE x

(***************************************************************************)
(* Square roots.  math.sqrt of a negative number is a mathjs Complex       *)
(* object, kept as kind "cplx".                                            *)
(***************************************************************************)
Cplx == [k |-> "cplx", q |-> <<0, 1>>, r |-> <<0, 1>>, s |-> 0]

mathSqrt(x) ==
  IF x.k # "fin" THEN (IF x.k = "inf" /\ x.s < 0 THEN Cplx ELSE x)
  ELSE IF FSign(x) < 0 THEN Cplx
  ELSE IF IsZero(x) THEN x
  ELSE IF x.q[1] = 0 THEN [k |-> "half", q |-> <<0, 1>>, r |-> x.r, s |-> 0]
  ELSE IF IsSquare(x.q)
       THEN Round(RSqrt(x.q),
                  RDiv(x.r, RMul(<<2, 1>>, RSqrt(x.q))),
                  -Abs(RSign(x.r)))
  ELSE [k |-> "rt", q |-> x.q, r |-> <<0, 1>>, s |-> 0]

\* x + pm * root for a root mathSqrt returned (pm = 1 or -1):
\*   surd: q + s*sqrt(r), an irrational, never zero
\*   pert: q + s*h with h about 1e-8
FAddRoot(x, root, pm) ==
  IF root.k \in {"fin", "inf", "nan", "und"}
  THEN FAdd(x, IF pm > 0 THEN root ELSE FNeg(root))
  ELSE IF x.k # "fin" THEN x
  ELSE IF root.k = "rt" THEN [k |-> "surd", q |-> x.q, r |-> root.q, s |-> pm]
  ELSE [k |-> "pert", q |-> x.q, r |-> <<0, 1>>, s |-> pm]

\* sign of b + s*sqrt(rad)
SurdSign(b, s, rad) ==
  IF b[1] = 0 THEN s
  ELSE IF RSign(b) = s THEN s
  ELSE IF RLt(rad, RMul(b, b)) THEN RSign(b) ELSE s

\* |b + s*sqrt(rad)| against a rational ay > 0: 1 when larger, -1 when smaller
SurdCmpAbs(b, s, rad, ay) ==
  LET sg == SurdSign(b, s, rad)
      t  == RSub(ay, RMul(RInt(sg), b))
  IN  IF sg * s > 0
      THEN (IF RSign(t) <= 0 \/ RLt(RMul(t, t), rad) THEN 1 ELSE -1)
      ELSE (IF RSign(t) >= 0 \/ RLt(RMul(t, t), rad) THEN -1 ELSE 1)

\* floor of 16*sqrt(rad), for the size of a surd where only its size matters
SurdApprox(b, s, rad) ==
  RAdd(b, Rat(s * ISqrt(256 * rad[1] * rad[2]), 16 * rad[2]))

(***************************************************************************)
(* Angles in radians.  Math.atan2 is kept to what binary64 fixes exactly:  *)
(*   oct: m * fl(pi/4) + r*eps, a few steps of the grid off a multiple     *)
(*   arc: strictly between m*w*pi/4 and (m+1)*w*pi/4                       *)
(* C90 = (pi/2 - fl(pi/2)) / eps = 0.5515, which is also                   *)
(* Math.cos(fl(pi/2)) / eps = 6.123233995736766e-17 / 2^-53.               *)
(***************************************************************************)
C90 == <<141, 256>>

RadNaN == [k |-> "nan", m |-> 0, w |-> 1, r |-> <<0, 1>>]

Oct(m, r) == [k |-> "oct", m |-> m, w |-> 1, r |-> r]

Arc(m) == [k |-> "arc", m |-> m, w |-> 1, r |-> <<0, 1>>]

\* the open arc of magnitude (j, j+1) eighths of a turn, on the side of ys
ArcOf(j, ys) == IF ys > 0 THEN Arc(j) ELSE Arc(-(j + 1))

\* the result whose true magnitude is base*pi/4 + shift*eps: the binary64
\* value nearest to it, n steps of the grid from fl(base*pi/4)
NearOct(base, shift, ys) ==
  LET gr  == IF base = 1 THEN <<1, 1>> ELSE IF base = 2 THEN <<2, 1>> ELSE <<4, 1>>
      off == RAdd(RMul(RInt(base), RMul(C90, <<1, 2>>)), shift)
      n   == RoundNearest(RDiv(off, gr), 0)
  IN  Oct(ys * base, RMul(RInt(ys * n), gr))

XSign(x) == IF x.k = "surd" THEN SurdSign(x.q, x.s, x.r)
            ELSE IF x.k = "pert" THEN (IF x.q[1] # 0 THEN RSign(x.q) ELSE x.s)
            ELSE FSign(x)

\* the octant of (x, y) with |x|, |y| of the same order, |x| against |y| = c
Octant(c, xs, ys) ==
  ArcOf(IF xs > 0 THEN (IF c > 0 THEN 0 ELSE 1) ELSE (IF c > 0 THEN 3 ELSE 2), ys)

Diagonal(xs, ys) == Oct(ys * (IF xs > 0 THEN 1 ELSE 3), <<0, 1>>)

MathAtan2(y, x) ==
  LET ys == FSign(y)
      xs == XSign(x)
      xnormal == x.k = "surd" \/ x.q[1] # 0
      ynormal == y.q[1] # 0
      xmag == IF x.k = "surd" THEN RAbs(SurdApprox(x.q, x.s, x.r)) ELSE RAbs(x.q)
  IN  IF y.k = "und" \/ x.k \in {"und", "cplx"}
        THEN [k |-> "und", m |-> 0, w |-> 1, r |-> <<0, 1>>]
      ELSE IF y.k = "nan" \/ x.k = "nan" THEN RadNaN
      ELSE IF x.k = "inf"
           THEN (IF y.k = "inf" THEN Diagonal(x.s, ys)
                 ELSE IF x.s > 0 THEN Oct(0, <<0, 1>>)
                 ELSE Oct(IF ys < 0 THEN -4 ELSE 4, <<0, 1>>))
      ELSE IF y.k = "inf" THEN Oct(2 * ys, <<0, 1>>)
      ELSE IF ys = 0 THEN Oct(IF xs < 0 THEN 4 ELSE 0, <<0, 1>>)
      ELSE IF xs = 0 THEN Oct(2 * ys, <<0, 1>>)
      ELSE IF x.k = "pert" /\ x.q[1] = 0
           THEN (IF ynormal THEN ArcOf(IF xs > 0 THEN 1 ELSE 2, ys)
                 ELSE ArcOf(IF xs > 0 THEN 0 ELSE 3, ys))
      ELSE IF ynormal /\ xnormal
           THEN (IF x.k = "surd"
                 THEN Octant(SurdCmpAbs(x.q, x.s, x.r, RAbs(y.q)), xs, ys)
                 ELSE LET c == RCmp(RAbs(x.q), RAbs(y.q))
                      IN  IF c # 0 THEN Octant(c, xs, ys)
                          ELSE IF x.k = "pert" THEN Octant(x.s * xs, xs, ys)
                          ELSE LET d == RDiv(RSub(RMul(RInt(ys), y.r),
                                                  RMul(RInt(xs), x.r)),
                                             RMul(<<2, 1>>, RAbs(x.q)))
                               IN  NearOct(IF xs > 0 THEN 1 ELSE 3,
                                           IF xs > 0 THEN d ELSE RNeg(d), ys))
      ELSE IF xnormal
           THEN (IF xs > 0 THEN Oct(0, RDiv(y.r, xmag))
                 ELSE NearOct(4, RNeg(RDiv(RAbs(y.r), xmag)), ys))
      ELSE IF ynormal
           THEN NearOct(2, RNeg(RDiv(RMul(RInt(xs), RAbs(x.r)), RAbs(y.q))), ys)
      ELSE LET c == RCmp(RAbs(x.r), RAbs(y.r))
           IN  IF c = 0 THEN Diagonal(xs, ys) ELSE Octant(c, xs, ys)

\* 2 * rad
Twice(a) == [a EXCEPT !.m = IF a.k = "oct" THEN 2 * a.m ELSE a.m,
                      !.w = IF a.k = "arc" THEN 2 * a.w ELSE a.w,
                      !.r = RMul(<<2, 1>>, a.r)]

(***************************************************************************)
(* Degrees <-> radians, Math.cos and Math.sin at the multiples of 90       *)
(* degrees.  fl(k*pi/2) falls short of k*pi/2 by k*C90*eps, so the         *)
(* function that is 0 at k*pi/2 returns that shortfall times its slope:    *)
(* Math.cos(degToRad(90)) = 6.1e-17, Math.cos(degToRad(270)) = -1.8e-16.   *)
(***************************************************************************)
RadUnd == [k |-> "und", m |-> 0, w |-> 1, r |-> <<0, 1>>]

degToRad(deg) ==
  IF deg.k = "nan" \/ deg.k = "inf" THEN RadNaN
  ELSE IF deg.k = "fin" /\ deg.r[1] = 0 /\ deg.q[2] = 1 /\ deg.q[1] % 90 = 0
       THEN Oct(deg.q[1] \div 45, <<0, 1>>)
  ELSE RadUnd

CosTable == <<1, 0, -1, 0>>

SinTable == <<0, 1, 0, -1>>

MathCos(a) ==
  IF a.k = "nan" THEN NaN
  ELSE IF a.k # "oct" \/ a.m % 2 # 0 THEN Und
  ELSE LET k == a.m \div 2
           cosv == CosTable[(k % 4) + 1]
           sinv == SinTable[(k % 4) + 1]
       IN  IF cosv # 0 THEN Num(cosv)
           ELSE Fin(<<0, 1>>, RMul(RInt(sinv * k), C90))

MathSin(a) ==
  IF a.k = "nan" THEN NaN
  ELSE IF a.k # "oct" \/ a.m % 2 # 0 THEN Und
  ELSE LET k == a.m \div 2
           cosv == CosTable[(k % 4) + 1]
           sinv == SinTable[(k % 4) + 1]
       IN  IF sinv # 0 THEN Num(sinv)
           ELSE Fin(<<0, 1>>, RMul(RInt(-cosv * k), C90))

\* 180/pi = 57.29578 to six digits
DegPerRad == <<4068, 71>>

\* an angle in degrees is a number (fin, nan) or, kind "arc", a value
\* strictly between 90*s and 90*s + 90
DegArc(j) == [k |-> "arc", q |-> <<0, 1>>, r |-> <<0, 1>>, s |-> j]

radToDeg(rad) ==
  IF rad.k = "nan" THEN NaN
  ELSE IF rad.k = "oct" THEN Round(RInt(45 * rad.m), RMul(rad.r, DegPerRad), 0)
  ELSE IF rad.k = "arc" /\ rad.w = 2 THEN DegArc(rad.m)
  ELSE Und

\* x % n for an integer n > 0: the sign of x, exact
FMod(x, n) ==
  IF x.k = "nan" \/ x.k = "inf" THEN NaN
  ELSE IF x.k # "fin" \/ x.q[1] = 0 THEN x
  ELSE LET t == RDiv(x.q, RInt(n))
           whole == Abs(t[1]) \div t[2]
           short == t[2] = 1 /\ RSign(x.r) * Sign(t[1]) < 0
           trunc == Sign(t[1]) * (IF short THEN whole - 1 ELSE whole)
       IN  Fin(RSub(x.q, RInt(n * trunc)), x.r)

normalizeAngle(angleDeg) ==
  LET a == FMod(angleDeg, 360)
  IN  IF a.k = "arc" THEN (IF a.s < 0 THEN DegArc(a.s + 4) ELSE a)
      ELSE IF FLt(a, Num(0)) THEN FAdd(a, Num(360))
      ELSE a

(***************************************************************************)
(* JavaScript values of a parsed JSON body, and their coercions.  The      *)
(* strings and objects of the model are the ones Number() maps to NaN.     *)
(***************************************************************************)
JsUndefined == [t |-> "undefined", v |-> NaN]

JsNull == [t |-> "null", v |-> Num(0)]

JsNumber(x) == [t |-> "number", v |-> x]

JsString == [t |-> "string", v |-> NaN]

JsTrue == [t |-> "boolean", v |-> Num(1)]

\* !x, the test that also rejects 0
Falsy(x) ==
  \/ x.t \in {"undefined", "null"}
  \/ x.t = "number" /\ (IsZero(x.v) \/ x.v.k = "nan")

\* x == null
LooseNull(x) == x.t \in {"undefined", "null"}

ToNumber(x) == x.v

\* x + y: concatenation when either side is a string
JsPlus(x, y) ==
  IF x.t = "string" \/ y.t = "string" THEN JsString
  ELSE JsNumber(FAdd(ToNumber(x), ToNumber(y)))

\* JSON.stringify of a property value: NaN and Infinity are written null
ToJson(x) ==
  IF x.t = "number" /\ x.v.k \in {"nan", "inf"} THEN JsNull ELSE x

(***************************************************************************)
(* grashofCondition, the same text in both files.                          *)
(***************************************************************************)
\* the reciprocal of the tolerance 1e-9
TolDen == 1000000000

\* x < 1e-9 for x >= 0
BelowTolerance(x) ==
  /\ x.k = "fin"
  /\ Abs(x.q[1]) <= (x.q[2] - 1) \div TolDen

MathMin4(a, b, c, d) ==
  FMin(FMin(FMin(ToNumber(a), ToNumber(b)), ToNumber(c)), ToNumber(d))

MathMax4(a, b, c, d) ==
  FMax(FMax(FMax(ToNumber(a), ToNumber(b)), ToNumber(c)), ToNumber(d))

\* the classification without its tolerance test
grashofConditionStrict(a, b, c, d) ==
  LET S  == MathMin4(a, b, c, d)
      L  == MathMax4(a, b, c, d)
      PQ == FSub(ToNumber(JsPlus(JsPlus(JsPlus(a, b), c), d)), FAdd(S, L))
      SL == FAdd(S, L)
  IN  IF FLt(SL, PQ) THEN "Grashof" ELSE "non-Grashof"

grashofCondition(a, b, c, d) ==
  LET S  == MathMin4(a, b, c, d)
      L  == MathMax4(a, b, c, d)
      PQ == FSub(ToNumber(JsPlus(JsPlus(JsPlus(a, b), c), d)), FAdd(S, L))
      SL == FAdd(S, L)
  IN  IF FLt(SL, PQ) THEN "Grashof"
      ELSE IF BelowTolerance(FAbs(FSub(SL, PQ))) THEN "Special Grashof"
      ELSE "non-Grashof"

(***************************************************************************)
(* computeFourBar.  The coefficients are the same text in both files; the  *)
(* files differ in what follows the discriminant.                          *)
(***************************************************************************)
\* the discriminants B*B - 4*A*C and E*E - 4*D*F, beside the coefficients
Discriminants(A, B, C, D, E, F) ==
  [A |-> A, B |-> B, C |-> C, D |-> D, E |-> E, F |-> F,
   sqrtVal4 |-> FSub(FMul(B, B), FMul(FMul(Num(4), A), C)),
   sqrtVal3 |-> FSub(FMul(E, E), FMul(FMul(Num(4), D), F))]

\* A, B, C and D, E, F (K4 is d / b again, the value of K2)
Coefficients(cos, sin, K1, K2, K3, K4, K5) ==
  Discriminants(FAdd(FSub(FSub(cos, K1), FMul(K2, cos)), K3),
                FMul(Num(-2), sin),
                FAdd(FSub(K1, FMul(FSub(K2, Num(1)), cos)), K3),
                FAdd(FSub(cos, FMul(K4, cos)), K5),
                FMul(Num(-2), sin),
                FAdd(FSub(K4, FMul(FSub(Num(1), K4), cos)), K5))

\* K1 .. K5 and the cosine and sine of theta2
Ratios(a, b, c, d, theta2) ==
  Coefficients(MathCos(theta2), MathSin(theta2),
               FDiv(d, c),
               FDiv(d, b),
               FDiv(FAdd(FAdd(FSub(FMul(a, a), FMul(b, b)), FMul(c, c)), FMul(d, d)),
                    FMul(FMul(Num(2), a), c)),
               FDiv(d, b),
               FDiv(FAdd(FAdd(FSub(FMul(c, c), FMul(d, d)), FMul(a, a)), FMul(b, b)),
                    FMul(FMul(Num(2), a), b)))

\* everything computeFourBar computes before it takes a square root
Intermediates(a, b, c, d, theta2_deg) ==
  Ratios(ToNumber(a), ToNumber(b), ToNumber(c), ToNumber(d),
         degToRad(ToNumber(theta2_deg)))

\* normalizeAngle(radToDeg(2 * Math.atan2(2 * P, part)))
AngleOf(P, part) ==
  JsNumber(normalizeAngle(radToDeg(Twice(MathAtan2(FMul(Num(2), P), part)))))

\* the open angle (-Q - root) and the crossed angle (-Q + root)
OpenCrossed(P, Q, root) ==
  <<AngleOf(P, FAddRoot(FNeg(Q), root, -1)), AngleOf(P, FAddRoot(FNeg(Q), root, 1))>>

\* part_001: null for both when the discriminant is negative
GuardedPair(P, Q, sqrtVal) ==
  IF FLt(sqrtVal, Num(0)) THEN <<JsNull, JsNull>>
  ELSE OpenCrossed(P, Q, mathSqrt(sqrtVal))

\* the number a mathjs Complex becomes under the operators - and +: its
\* valueOf gives null (hence 0) in the releases that define one, and its
\* toString a text that is not a number in the others
ComplexKinds == {"zero", "nan"}

ComplexToNumber(root, cx) ==
  IF root.k # "cplx" THEN root
  ELSE IF cx = "zero" THEN Num(0)
  ELSE NaN

\* server.js: the square root is taken whatever the sign of the discriminant
UnguardedPair(P, Q, sqrtVal, cx) ==
  OpenCrossed(P, Q, ComplexToNumber(mathSqrt(sqrtVal), cx))

Angles(t4, t3) ==
  [theta41 |-> t4[1], theta42 |-> t4[2], theta31 |-> t3[1], theta32 |-> t3[2]]

\* the part of computeFourBar after the coefficients, in each file
Solutions(file, cx, i) ==
  IF file = "server.js"
  THEN Angles(UnguardedPair(i.A, i.B, i.sqrtVal4, cx),
              UnguardedPair(i.D, i.E, i.sqrtVal3, cx))
  ELSE Angles(GuardedPair(i.A, i.B, i.sqrtVal4), GuardedPair(i.D, i.E, i.sqrtVal3))

computeFourBar(file, cx, a, b, c, d, theta2_deg) ==
  Solutions(file, cx, Intermediates(a, b, c, d, theta2_deg))

(***************************************************************************)
(* POST /compute.  The handler has no await: it runs to its response in    *)
(* one step.  calls lists the functions it invoked, in order.              *)
(***************************************************************************)
MissingMessage == "Missing one of the required fields: a, b, c, d, theta2"

Absent == [t |-> "absent", v |-> NaN]

Response(status, error, grashof, angles, calls) ==
  [status |-> status, error |-> error, grashof |-> grashof,
   theta41 |-> angles[1], theta42 |-> angles[2],
   theta31 |-> angles[3], theta32 |-> angles[4], calls |-> calls]

\* res.json({ grashof, ...angles })
Success(angles, grashof) ==
  Response(200, "", grashof,
           <<ToJson(angles.theta41), ToJson(angles.theta42),
             ToJson(angles.theta31), ToJson(angles.theta32)>>,
           <<"computeFourBar", "grashofCondition">>)

compute(file, cx, body) ==
  IF \/ LooseNull(body.a) \/ LooseNull(body.b) \/ LooseNull(body.c)
     \/ LooseNull(body.d) \/ LooseNull(body.theta2)
  THEN Response(400, MissingMessage, "", <<Absent, Absent, Absent, Absent>>, <<>>)
  ELSE Success(computeFourBar(file, cx, body.a, body.b, body.c, body.d, body.theta2),
               grashofCondition(body.a, body.b, body.c, body.d))

VARIABLES file, cx, req, call

vars == <<file, cx, req, call>>

\* the two files, and for server.js the two behaviours of a Complex operand
Deployments == {<<"server.js", "zero">>, <<"server.js", "nan">>, <<"part_001", "zero">>}

NumReq == 2

Requests == 1..NumReq

N(n) == JsNumber(Num(n))

Body(a, b, c, d, theta2) == [a |-> a, b |-> b, c |-> c, d |-> d, theta2 |-> theta2]

NoBody == Body(JsUndefined, JsUndefined, JsUndefined, JsUndefined, JsUndefined)

Bodies ==
  { Body(N(1), N(1), N(1), N(1), N(90)),
    Body(N(1), N(2), N(2), N(3), N(90)),
    Body(N(0), N(1), N(1), N(1), N(0)),
    Body(N(1), N(0), N(1), N(1), N(90)),
    Body(N(1), N(1), N(0), N(1), N(90)),
    Body(JsUndefined, N(1), N(1), N(1), N(90)),
    Body(N(1), N(1), N(1), N(1), JsNull),
    Body(N(1), JsString, N(1), N(1), N(90)),
    Body(N(1), N(1), N(1), JsTrue, N(90)) }

NoResponse == Response(0, "", "", <<Absent, Absent, Absent, Absent>>, <<>>)

Idle == [st |-> "idle", body |-> NoBody, res |-> NoResponse]

NoCall == [fn |-> "none", st |-> "returned", args |-> <<>>,
           mid |-> <<>>, angles |-> <<>>, class |-> ""]

Init ==
  /\ \E dep \in Deployments : file = dep[1] /\ cx = dep[2]
  /\ req = [r \in Requests |-> Idle]
  /\ call = NoCall

\* a client posts a JSON body; express.json() has parsed it
Post(r, body) ==
  /\ req[r].st = "idle"
  /\ req' = [req EXCEPT ![r] = [st |-> "pending", body |-> body, res |-> NoResponse]]
  /\ UNCHANGED <<file, cx, call>>

\* what a handler that kept its inputs in module scope would answer
HandleShared(r) ==
  /\ req[r].st = "pending"
  /\ \E o \in Requests :
       /\ req[o].st # "idle"
       /\ req' = [req EXCEPT ![r] = [st |-> "done", body |-> req[r].body,
                                     res |-> compute(file, cx, req[o].body)]]
  /\ UNCHANGED <<file, cx, call>>

Handle(r) ==
  /\ req[r].st = "pending"
  /\ req' = [req EXCEPT ![r] = [st |-> "done", body |-> req[r].body,
                                res |-> compute(file, cx, req[r].body)]]
  /\ UNCHANGED <<file, cx, call>>

Next ==
  \/ \E r \in Requests, body \in Bodies : Post(r, body)
  \/ \E r \in Requests : Handle(r)

Spec == Init /\ [][Next]_vars

(***************************************************************************)
(* computeFourBar called on its own, on every linkage of the sets below.   *)
(***************************************************************************)
Lengths == {0, 1, 2, 4}

GroundLengths == {0, 1, 2, 3, 4}

Thetas == {-270, -90, 0, 90, 270, 450}

SolverInit ==
  /\ \E dep \in Deployments : file = dep[1] /\ cx = dep[2]
  /\ req = [r \in Requests |-> Idle]
  /\ \E a \in Lengths, b \in Lengths, c \in Lengths, d \in GroundLengths, t \in Thetas :
       call = [fn |-> "computeFourBar", st |-> "ready",
               args |-> <<N(a), N(b), N(c), N(d), N(t)>>,
               mid |-> <<>>, angles |-> <<>>, class |-> ""]

InvokeSolver ==
  /\ call.fn = "computeFourBar"
  /\ call.st = "ready"
  /\ call' = [call EXCEPT
       !.st = "returned",
       !.mid = Intermediates(call.args[1], call.args[2], call.args[3],
                             call.args[4], call.args[5]),
       !.angles = computeFourBar(file, cx, call.args[1], call.args[2], call.args[3],
                                 call.args[4], call.args[5])]
  /\ UNCHANGED <<file, cx, req>>

SolverNext == InvokeSolver

SolverSpec == SolverInit /\ [][SolverNext]_vars

(***************************************************************************)
(* grashofCondition called on its own.  OnePlus is 1 + 2^-52, the binary64 *)
(* value next above 1.                                                     *)
(***************************************************************************)
OnePlus == JsNumber(Fin(<<1, 1>>, <<2, 1>>))

GrashofValues ==
  {N(-1), N(0), N(1), N(2), N(3), N(4), N(5), N(7), N(8), OnePlus, JsString}

GrashofInit ==
  /\ \E dep \in Deployments : file = dep[1] /\ cx = dep[2]
  /\ req = [r \in Requests |-> Idle]
  /\ \E a \in GrashofValues, b \in GrashofValues, c \in GrashofValues, d \in GrashofValues :
       call = [fn |-> "grashofCondition", st |-> "ready", args |-> <<a, b, c, d>>,
               mid |-> <<>>, angles |-> <<>>, class |-> ""]

InvokeGrashof ==
  /\ call.fn = "grashofCondition"
  /\ call.st = "ready"
  /\ call' = [call EXCEPT
       !.st = "returned",
       !.class = grashofCondition(call.args[1], call.args[2], call.args[3], call.args[4])]
  /\ UNCHANGED <<file, cx, req>>

GrashofNext == InvokeGrashof

GrashofSpec == GrashofInit /\ [][GrashofNext]_vars

(***************************************************************************)
(* Properties.                                                             *)
(***************************************************************************)
Classified == call.fn = "grashofCondition" /\ call.st = "returned"

Solved == call.fn = "computeFourBar" /\ call.st = "returned"

Fields(body) == <<body.a, body.b, body.c, body.d, body.theta2>>

IsNumber(x) == x.t = "number" /\ x.v.k = "fin"

IsMarker(x) == x.t = "null"

\* a number x with 0 <= x < 360
InRange(x) ==
  /\ x.t = "number"
  /\ \/ x.v.k = "arc" /\ x.v.s \in 0..3
     \/ /\ x.v.k = "fin"
        /\ RSign(x.v.q) > 0 \/ (x.v.q[1] = 0 /\ RSign(x.v.r) >= 0)
        /\ RLt(x.v.q, <<360, 1>>) \/ (x.v.q = <<360, 1>> /\ RSign(x.v.r) < 0)

IsDegrees(x, n) == x.t = "number" /\ x.v = Num(n)

\* the model never leaves a result of the solver undetermined
Determined ==
  Solved => \A x \in {call.angles.theta41, call.angles.theta42,
                      call.angles.theta31, call.angles.theta32} :
              x.t = "null" \/ x.v.k \in {"fin", "arc", "nan"}

Perms4 == {p \in [1..4 -> 1..4] : \A i, j \in 1..4 : p[i] = p[j] => i = j}

\* S + L - PQ in exact arithmetic, as <<whole part, multiple of eps>>
ExactExcess(args) ==
  LET v == [i \in 1..4 |-> args[i].v]
      Le(x, y) == ~FLt(y, x)
      S == v[CHOOSE i \in 1..4 : \A j \in 1..4 : Le(v[i], v[j])]
      L == v[CHOOSE i \in 1..4 : \A j \in 1..4 : Le(v[j], v[i])]
      sumq == RAdd(RAdd(v[1].q, v[2].q), RAdd(v[3].q, v[4].q))
      sumr == RAdd(RAdd(v[1].r, v[2].r), RAdd(v[3].r, v[4].r))
  IN  <<RSub(RMul(<<2, 1>>, RAdd(S.q, L.q)), sumq),
        RSub(RMul(<<2, 1>>, RAdd(S.r, L.r)), sumr)>>

\* C1: grashofCondition returns one of its three classes for any four
\* arguments, numbers or not; for four numbers it is Grashof when S + L < PQ,
\* Special Grashof when S + L = PQ and non-Grashof when S + L > PQ (where the
\* two sides differ by rounding residue only, Grashof or Special Grashof); and
\* (1,2,2,3), (2,5,4,7) are Special Grashof, (2,5,4,8) non-Grashof, (2,7,4,8)
\* Grashof.
C1_ThreeWayRule ==
  Classified =>
    /\ call.class \in {"Grashof", "Special Grashof", "non-Grashof"}
    /\ (\A i \in 1..4 : IsNumber(call.args[i])) =>
         LET e == ExactExcess(call.args)
         IN  /\ RSign(e[1]) < 0 => call.class = "Grashof"
             /\ RSign(e[1]) > 0 => call.class = "non-Grashof"
             /\ e[1][1] = 0 => call.class \in {"Grashof", "Special Grashof"}
             /\ e[1][1] = 0 /\ (\A i \in 1..4 : call.args[i].v.r[1] = 0)
                  => call.class = "Special Grashof"
    /\ call.args = <<N(1), N(2), N(2), N(3)>> => call.class = "Special Grashof"
    /\ call.args = <<N(2), N(5), N(4), N(7)>> => call.class = "Special Grashof"
    /\ call.args = <<N(2), N(5), N(4), N(8)>> => call.class = "non-Grashof"
    /\ call.args = <<N(2), N(7), N(4), N(8)>> => call.class = "Grashof"

C1_Witness ==
  /\ Classified
  /\ call.args = <<N(2), N(7), N(4), N(8)>>
  /\ call.class = "Grashof"

\* C2: for positive a, b, c, d, grashofCondition of every permutation of the
\* arguments is the class it returned for them.
C2_PermutationInvariant ==
  (Classified /\ \A i \in 1..4 : IsNumber(call.args[i]) /\ FSign(call.args[i].v) > 0) =>
    \A p \in Perms4 :
      grashofCondition(call.args[p[1]], call.args[p[2]],
                       call.args[p[3]], call.args[p[4]]) = call.class

\* C3: when B*B - 4*A*C is negative, theta41 and theta42 are both the
\* no-solution marker, and likewise theta31 and theta32 when E*E - 4*D*F is
\* negative; a marker is no number, NaN included.
C3_NegativeDiscriminantMarker ==
  Solved =>
    /\ FLt(call.mid.sqrtVal4, Num(0)) =>
         IsMarker(call.angles.theta41) /\ IsMarker(call.angles.theta42)
    /\ FLt(call.mid.sqrtVal3, Num(0)) =>
         IsMarker(call.angles.theta31) /\ IsMarker(call.angles.theta32)

\* C4: for positive lengths and any theta2, each of theta31, theta32, theta41, theta42 is the
\* no-solution marker or a finite x with 0 <= x < 360, never 360 and never
\* negative.
C4_AngleRange ==
  (Solved /\ \A i \in 1..4 : FSign(call.args[i].v) > 0) =>
    \A x \in {call.angles.theta41, call.angles.theta42,
              call.angles.theta31, call.angles.theta32} :
      IsMarker(x) \/ InRange(x)

Done(r) == req[r].st = "done"

\* C5 as stated: a request with a field missing is answered 400 with the
\* message and without a call of computeFourBar or grashofCondition, and a
\* request with all five fields present is not answered 400.
C5_PresentNotRejected ==
  \A r \in Requests : Done(r) =>
    LET f == Fields(req[r].body)
    IN  /\ (\E i \in 1..5 : f[i].t = "undefined") =>
             /\ req[r].res.status = 400
             /\ req[r].res.error = MissingMessage
             /\ req[r].res.calls = <<>>
        /\ (\A i \in 1..5 : f[i].t # "undefined") => req[r].res.status # 400

\* C5: a request with a field missing or null is answered 400 with the
\* message and without a call of computeFourBar or grashofCondition; a request
\* whose five fields are all present and not null, 0 included, is not
\* answered 400.
C5_MissingOrNullRejected ==
  \A r \in Requests : Done(r) =>
    LET f == Fields(req[r].body)
    IN  /\ (\E i \in 1..5 : f[i].t \in {"undefined", "null"}) =>
             /\ req[r].res.status = 400
             /\ req[r].res.error = MissingMessage
             /\ req[r].res.calls = <<>>
        /\ (\A i \in 1..5 : f[i].t \notin {"undefined", "null"}) =>
             req[r].res.status # 400

C5_Witness ==
  /\ \E r \in Requests :
       Done(r) /\ req[r].body.a.t = "undefined" /\ req[r].res.status = 400
  /\ \E r \in Requests :
       Done(r) /\ req[r].body.a = N(0) /\ req[r].res.status = 200

\* C6: a request with a field that is present but no number is rejected
\* before computeFourBar or grashofCondition is called.
C6_NonNumericRejected ==
  \A r \in Requests : Done(r) =>
    ((\E i \in 1..5 : Fields(req[r].body)[i].t \in {"string", "boolean"}) =>
       req[r].res.status # 200 /\ req[r].res.calls = <<>>)

\* C7: a request with five numbers of which b or c is 0 ends in an error
\* response, not in a successful one.
C7_ZeroLengthRejected ==
  \A r \in Requests : Done(r) =>
    LET f == Fields(req[r].body)
    IN  ((\A i \in 1..5 : IsNumber(f[i])) /\ (IsZero(f[2].v) \/ IsZero(f[3].v))) =>
          req[r].res.status # 200 /\ req[r].res.error # ""

\* C8: for a = b = c = d = 1 and theta2 = 90 all four angles are numbers, one
\* of theta41, theta42 is 90 and one of theta31, theta32 is 0.
C8_SquareAt90 ==
  (Solved /\ call.args = <<N(1), N(1), N(1), N(1), N(90)>>) =>
    /\ \A x \in {call.angles.theta41, call.angles.theta42,
                 call.angles.theta31, call.angles.theta32} : InRange(x)
    /\ IsDegrees(call.angles.theta41, 90) \/ IsDegrees(call.angles.theta42, 90)
    /\ IsDegrees(call.angles.theta31, 0) \/ IsDegrees(call.angles.theta32, 0)

LinearRootAngle(Q, R) ==
  JsNumber(normalizeAngle(radToDeg(Twice(MathAtan2(FDiv(FNeg(R), Q), Num(1))))))

\* C10: when A is 0 and B is not, theta41 or theta42 is the angle of the root
\* t = -C/B of B*t + C = 0, and likewise theta31 or theta32 when D is 0 and E
\* is not.
C10_LinearBranch ==
  Solved =>
    /\ (IsZero(call.mid.A) /\ IsFin(call.mid.B) /\ ~IsZero(call.mid.B)
          /\ IsFin(call.mid.C)) =>
         LinearRootAngle(call.mid.B, call.mid.C)
           \in {call.angles.theta41, call.angles.theta42}
    /\ (IsZero(call.mid.D) /\ IsFin(call.mid.E) /\ ~IsZero(call.mid.E)
          /\ IsFin(call.mid.F)) =>
         LinearRootAngle(call.mid.E, call.mid.F)
           \in {call.angles.theta31, call.angles.theta32}

====
